---- MODULE Spec2Model ----
(***************************************************************************)
(* Hierarchical deterministic symmetric keys (go-hdsk): schema and path    *)
(* parsing, master / child / node derivation and lineage verification.     *)
(*                                                                         *)
(* Byte strings are sequences of naturals in 0..255, and nil and the empty *)
(* slice are both the empty sequence.  Text is a sequence of one-character *)
(* strings.  A uint32 that the code does arithmetic on (HDKey.Depth) is a  *)
(* pair <<hi, lo>> of 16-bit halves, because TLC's integers stop           *)
(* at 2^31-1.  An index is a natural below 2^31 (the code only encodes     *)
(* it).  int is taken to be 64 bits wide (amd64, arm64).                   *)
(***************************************************************************)
EXTENDS Integers, Sequences, FiniteSets, Bags, TLC

VARIABLES h, master, mprov, key, kprov, schema, res, run, heap

vars == <<h, master, mprov, key, kprov, schema, res, run, heap>>

(***************************************************************************)
(* Bytes and bit operations                                                *)
(***************************************************************************)

Byte == 0..255

Bit(a, k) == (a \div (2 ^ k)) % 2

\* a ^ b on bytes
Xor8(a, b) ==
    LET x(k) == ((Bit(a, k) + Bit(b, k)) % 2) * (2 ^ k)
    IN  x(0) + x(1) + x(2) + x(3) + x(4) + x(5) + x(6) + x(7)

\* a | b on bytes
Or8(a, b) ==
    LET o(k) == (IF Bit(a, k) + Bit(b, k) > 0 THEN 1 ELSE 0) * (2 ^ k)
    IN  o(0) + o(1) + o(2) + o(3) + o(4) + o(5) + o(6) + o(7)

Zeros(n) == [i \in 1..n |-> 0]

\* s[from:to] of Go on a sequence indexed from 1: elements from+1 .. to
Slice(s, from, to) == SubSeq(s, from + 1, to)

(***************************************************************************)
(* Text                                                                    *)
(***************************************************************************)

DigitChars == <<"0", "1", "2", "3", "4", "5", "6", "7", "8", "9">>
LowerChars == <<"a", "b", "c", "d", "e", "f", "g", "h", "i", "j", "k", "l", "m",
                "n", "o", "p", "q", "r", "s", "t", "u", "v", "w", "x", "y", "z">>
UpperChars == <<"A", "B", "C", "D", "E", "F", "G", "H", "I", "J", "K", "L", "M",
                "N", "O", "P", "Q", "R", "S", "T", "U", "V", "W", "X", "Y", "Z">>

Range(s) == {s[i] : i \in 1..Len(s)}
Digits == Range(DigitChars)
Letters == Range(LowerChars) \cup Range(UpperChars)

PosIn(s, c) == CHOOSE i \in 1..Len(s) : s[i] = c

\* the byte of an ASCII character ([]byte(str))
Ascii(c) ==
    IF c \in Digits THEN 47 + PosIn(DigitChars, c)
    ELSE IF c \in Range(LowerChars) THEN 96 + PosIn(LowerChars, c)
    ELSE IF c \in Range(UpperChars) THEN 64 + PosIn(UpperChars, c)
    ELSE IF c = " " THEN 32
    ELSE IF c = "-" THEN 45
    ELSE IF c = "/" THEN 47
    ELSE IF c = ":" THEN 58
    ELSE IF c = "\t" THEN 9
    ELSE 63

StrBytes(str) == [i \in 1..Len(str) |-> Ascii(str[i])]

(***************************************************************************)
(* The keyed-hash primitive h (a parameter of every operation).  It is     *)
(* external to the repository; the model uses a small deterministic        *)
(* stand-in: the digest is a function of (h, key, data) alone, and every   *)
(* aligned group of three digest bytes determines the 22-bit seed, so two  *)
(* digests (or their 16-byte truncations) are equal only if the seeds are. *)
(*   "h32": 32-byte digest, accepts every key                              *)
(*   "k16": 16-byte digest, rejects a key that is not 16 bytes long        *)
(*   "k32": 32-byte digest, rejects a key that is not 32 bytes long        *)
(*   "x16": 32-byte digest, rejects a key that is not 16 bytes long        *)
(* Under "k16" a fingerprint keyed by a key of another length fails, under *)
(* "k32" every salt fails (its key has 16 bytes), and under "x16" every    *)
(* expansion fails (its key is a 32-byte digest).                          *)
(***************************************************************************)

Hashes == {"h32", "k16", "k32", "x16"}

HashSize(hh) == IF hh = "k16" THEN 16 ELSE 32
HashId(hh) == CASE hh = "h32" -> 1 [] hh = "k16" -> 2 [] hh = "k32" -> 3 [] OTHER -> 4
KeyAccepted(hh, k) ==
    \/ Len(k) = 16 /\ hh \in {"k16", "x16"}
    \/ Len(k) = 32 /\ hh = "k32"
    \/ hh = "h32"

SeedModulus == 4194301

Weight(i) == 1 + ((i * i * 37 + i * 101) % 4093)

\* the weighted sum of the bytes: position i counts Weight(i) * (bs[i] + 1)
\* (the cardinality of the bag with these counts)
Seed(bs) ==
    LET n == Len(bs)
    IN  (104729 * n + BagCardinality([i \in 1..n |-> Weight(i) * (bs[i] + 1)]))
            % SeedModulus

DigestByte(seed, j) ==
    LET g == (j - 1) \div 3
        r == (j - 1) % 3
    IN  ((seed \div (256 ^ r)) + 53 * g + 11 * r * g) % 256

\* h.Sum over data: the unkeyed digest
HashSum(hh, data) ==
    LET seed == Seed(<<HashId(hh), 0>> \o data)
    IN  [j \in 1..HashSize(hh) |-> DigestByte(seed, j)]

\* the keyed digest (MAC) of data under k
MacDigest(hh, k, data) ==
    LET seed == Seed(<<HashId(hh), 1, Len(k) % 256>> \o k \o data)
    IN  [j \in 1..HashSize(hh) |-> DigestByte(seed, j)]

(***************************************************************************)
(* Results: a Go (value, error) pair, or a runtime panic.                  *)
(*   out = "ok"    : val is the value, err = ""                            *)
(*   out = "error" : val is the zero value returned beside the error       *)
(*   out = "panic" : the call did not return (the goroutine panicked)      *)
(***************************************************************************)

Ok(v) == [out |-> "ok", val |-> v, err |-> ""]
Err(zero, e) == [out |-> "error", val |-> zero, err |-> e]
Panic(zero, e) == [out |-> "panic", val |-> zero, err |-> e]

(***************************************************************************)
(* utils.CalcSalt, utils.Fingerprint and hkdf.Key, in the three-argument   *)
(* forms hdsk.go calls                                                     *)
(***************************************************************************)

SaltTag == StrBytes(<<"S", "A", "L", "T">>)

\* a 16-byte salt: MAC over message, keyed by the normalised context
CalcSalt(hh, message, context) ==
    LET ctx == IF Len(context) = 0 THEN Zeros(16)
               ELSE LET d == HashSum(hh, context)
                    IN  [i \in 1..16 |-> IF i <= Len(d) THEN d[i] ELSE 0]
    IN  IF ~KeyAccepted(hh, ctx) THEN Err(<<>>, "salt")
        ELSE Ok(SubSeq(MacDigest(hh, ctx, message \o SaltTag), 1, 16))

\* a 16-byte fingerprint: MAC over child, keyed by parent
Fingerprint(hh, parent, child) ==
    IF ~KeyAccepted(hh, parent) THEN Err(<<>>, "fingerprint")
    ELSE Ok(SubSeq(MacDigest(hh, parent, child), 1, 16))

\* the expand blocks T(1) .. T(n): T(i) = MAC(PRK, T(i-1) | info | i)
RECURSIVE HkdfBlocks(_, _, _, _)
HkdfBlocks(hh, prk, info, n) ==
    IF n = 0 THEN <<>>
    ELSE LET prev == HkdfBlocks(hh, prk, info, n - 1)
         IN  Append(prev, MacDigest(hh, prk,
                 (IF n = 1 THEN <<>> ELSE prev[n - 1]) \o info \o <<n>>))

\* T(1) | T(2) | ... | T(n)
HkdfExpand(hh, prk, info, n) ==
    LET size == HashSize(hh)
        blocks == HkdfBlocks(hh, prk, info, n)
    IN  [j \in 1..(n * size) |-> blocks[((j - 1) \div size) + 1][((j - 1) % size) + 1]]

\* extract-then-expand: PRK = MAC(salt, secret), then the first length bytes
\* of the expansion
HkdfKey(hh, secret, salt, info, length) ==
    LET size == HashSize(hh)
        saltKey == IF Len(salt) = 0 THEN Zeros(size) ELSE salt
        n == (length + size - 1) \div size
    IN  IF length > 255 * size \/ ~KeyAccepted(hh, saltKey) THEN Err(<<>>, "hkdf")
        ELSE LET prk == MacDigest(hh, saltKey, secret)
             IN  IF ~KeyAccepted(hh, prk) THEN Err(<<>>, "hkdf")
                 ELSE Ok(SubSeq(HkdfExpand(hh, prk, info, n), 1, length))

(***************************************************************************)
(* internal/hkdf: the package's own extract-and-expand over a 64-byte      *)
(* keyed digest (a stand-in as above, with an identifier of its own).      *)
(***************************************************************************)

MacSize == 64

\* blake2b.New(64, key) takes a key of at most 64 bytes
mac_digest(k, data) ==
    IF Len(k) > MacSize THEN Err(<<>>, "blake2b: invalid key size")
    ELSE LET seed == Seed(<<5, 1, Len(k) % 256>> \o k \o data)
         IN  Ok([j \in 1..MacSize |-> DigestByte(seed, j)])

\* no salt (nil) stands for 64 zero bytes
hkdf_extract(ikm, salt) ==
    mac_digest(IF Len(salt) = 0 THEN Zeros(MacSize) ELSE salt, ikm)

\* The loop runs while len(okm) < length.  The t assigned in the loop is
\* declared there by := and is a new variable each time round, so the t
\* read when input is built is the one of line 30, always empty.
hkdf_expand(prk, info, length) ==
    LET t == <<>>
        n == (length + MacSize - 1) \div MacSize
        blocks == [i \in 1..n |-> mac_digest(prk, t \o info \o <<i % 256>>)]
        okm == [j \in 1..(n * MacSize) |->
                   blocks[((j - 1) \div MacSize) + 1].val[((j - 1) % MacSize) + 1]]
    IN  IF \E i \in 1..n : blocks[i].out # "ok"
        THEN Err(<<>>, "blake2b: invalid key size")
        ELSE Ok(Slice(okm, 0, length))

Hkdf(ikm, salt, info, length) ==
    LET prk == hkdf_extract(ikm, salt)
    IN  IF prk.out # "ok" THEN Err(<<>>, prk.err)
        ELSE hkdf_expand(prk.val, info, length)

(***************************************************************************)
(* hdsk.go: HDKey, Master, Child, Node, Lineage                            *)
(***************************************************************************)

\* a uint32 as <<hi, lo>>, value hi * 65536 + lo
Zero32 == <<0, 0>>
Max32 == <<65535, 65535>>

\* d + 1 in uint32 arithmetic (wraps to 0 after 2^32-1)
Inc32(d) ==
    IF d[2] < 65535 THEN <<d[1], d[2] + 1>>
    ELSE <<(d[1] + 1) % 65536, 0>>

HDKey(k, c, d, fp) == [Key |-> k, Code |-> c, Depth |-> d, Fingerprint |-> fp]

\* HDKey{}
ZeroKey == HDKey(<<>>, <<>>, Zero32, <<>>)

\* binary.BigEndian.PutUint32
PutUint32(index) ==
    << (index \div 16777216) % 256, (index \div 65536) % 256,
       (index \div 256) % 256, index % 256 >>

\* strconv.Itoa of a non-negative int
RECURSIVE Itoa(_)
Itoa(n) ==
    IF n < 10 THEN <<DigitChars[n + 1]>>
    ELSE Itoa(n \div 10) \o <<DigitChars[(n % 10) + 1]>>

MasterInfo == StrBytes(<<"M", "A", "S", "T", "E", "R">>)
ChildTag == <<"C", "H", "I", "L", "D">>

\* Master with the salt context read from a buffer shared with Child (which
\* leaves the encoded index of its last call there) instead of nil
MasterSharedInfo(hh, secret) ==
    LET shared == IF res.op = "Child" THEN PutUint32(res.arg[1]) ELSE <<>>
        salt == CalcSalt(hh, secret, shared)
    IN  IF salt.out # "ok" THEN Err(ZeroKey, "master key salt")
        ELSE LET ikm == HkdfKey(hh, secret, salt.val, MasterInfo, 64)
             IN  IF ikm.out # "ok" THEN Err(ZeroKey, "master key hkdf")
                 ELSE LET mk == Slice(ikm.val, 0, 32)
                          code == Slice(ikm.val, 32, 64)
                          fp == Fingerprint(hh, secret, mk)
                      IN  IF fp.out # "ok" THEN Err(ZeroKey, "master key fingerprint")
                          ELSE Ok(HDKey(mk, code, Zero32, fp.val))

\* Master with the arguments of Fingerprint exchanged
MasterFpSwapped(hh, secret) ==
    LET salt == CalcSalt(hh, secret, <<>>)
    IN  IF salt.out # "ok" THEN Err(ZeroKey, "master key salt")
        ELSE LET ikm == HkdfKey(hh, secret, salt.val, MasterInfo, 64)
             IN  IF ikm.out # "ok" THEN Err(ZeroKey, "master key hkdf")
                 ELSE LET mk == Slice(ikm.val, 0, 32)
                          code == Slice(ikm.val, 32, 64)
                          fp == Fingerprint(hh, mk, secret)
                      IN  IF fp.out # "ok" THEN Err(ZeroKey, "master key fingerprint")
                          ELSE Ok(HDKey(mk, code, Zero32, fp.val))

Master(hh, secret) ==
    LET salt == CalcSalt(hh, secret, <<>>)
    IN  IF salt.out # "ok" THEN Err(ZeroKey, "master key salt")
        ELSE LET ikm == HkdfKey(hh, secret, salt.val, MasterInfo, 64)
             IN  IF ikm.out # "ok" THEN Err(ZeroKey, "master key hkdf")
                 ELSE LET mk == Slice(ikm.val, 0, 32)
                          code == Slice(ikm.val, 32, 64)
                          fp == Fingerprint(hh, secret, mk)
                      IN  IF fp.out # "ok" THEN Err(ZeroKey, "master key fingerprint")
                          ELSE Ok(HDKey(mk, code, Zero32, fp.val))

\* Child with the fingerprint keyed by the parent's chain code
ChildFpFromCode(hh, m, index) ==
    LET info1 == PutUint32(index)
        salt == CalcSalt(hh, m.Code, info1)
    IN  IF salt.out # "ok" THEN Err(ZeroKey, "child key salt")
        ELSE LET info2 == StrBytes(ChildTag \o Itoa(index))
                 ikm == HkdfKey(hh, m.Code, salt.val, info2, 64)
             IN  IF ikm.out # "ok" THEN Err(ZeroKey, "child key hkdf")
                 ELSE LET child == Slice(ikm.val, 0, 32)
                          code == Slice(ikm.val, 32, 64)
                          fp == Fingerprint(hh, m.Code, child)
                      IN  IF fp.out # "ok" THEN Err(ZeroKey, "child key fingerprint")
                          ELSE Ok(HDKey(child, code, Inc32(m.Depth), fp.val))

\* Child with the salt taken from the parent's key
ChildSaltFromKey(hh, m, index) ==
    LET info1 == PutUint32(index)
        salt == CalcSalt(hh, m.Key, info1)
    IN  IF salt.out # "ok" THEN Err(ZeroKey, "child key salt")
        ELSE LET info2 == StrBytes(ChildTag \o Itoa(index))
                 ikm == HkdfKey(hh, m.Code, salt.val, info2, 64)
             IN  IF ikm.out # "ok" THEN Err(ZeroKey, "child key hkdf")
                 ELSE LET child == Slice(ikm.val, 0, 32)
                          code == Slice(ikm.val, 32, 64)
                          fp == Fingerprint(hh, m.Key, child)
                      IN  IF fp.out # "ok" THEN Err(ZeroKey, "child key fingerprint")
                          ELSE Ok(HDKey(child, code, Inc32(m.Depth), fp.val))

\* Child that returns the key and chain code it has derived when the
\* fingerprint fails
ChildPartialOnError(hh, m, index) ==
    LET info1 == PutUint32(index)
        salt == CalcSalt(hh, m.Code, info1)
    IN  IF salt.out # "ok" THEN Err(ZeroKey, "child key salt")
        ELSE LET info2 == StrBytes(ChildTag \o Itoa(index))
                 ikm == HkdfKey(hh, m.Code, salt.val, info2, 64)
             IN  IF ikm.out # "ok" THEN Err(ZeroKey, "child key hkdf")
                 ELSE LET child == Slice(ikm.val, 0, 32)
                          code == Slice(ikm.val, 32, 64)
                          fp == Fingerprint(hh, m.Key, child)
                      IN  IF fp.out # "ok"
                          THEN Err(HDKey(child, code, Inc32(m.Depth), <<>>),
                                   "child key fingerprint")
                          ELSE Ok(HDKey(child, code, Inc32(m.Depth), fp.val))

Child(hh, m, index) ==
    LET info1 == PutUint32(index)
        salt == CalcSalt(hh, m.Code, info1)
    IN  IF salt.out # "ok" THEN Err(ZeroKey, "child key salt")
        ELSE LET info2 == StrBytes(ChildTag \o Itoa(index))
                 ikm == HkdfKey(hh, m.Code, salt.val, info2, 64)
             IN  IF ikm.out # "ok" THEN Err(ZeroKey, "child key hkdf")
                 ELSE LET child == Slice(ikm.val, 0, 32)
                          code == Slice(ikm.val, 32, 64)
                          fp == Fingerprint(hh, m.Key, child)
                      IN  IF fp.out # "ok" THEN Err(ZeroKey, "child key fingerprint")
                          ELSE Ok(HDKey(child, code, Inc32(m.Depth), fp.val))

\* the loop of Node from position i (1-based), k the key derived so far
RECURSIVE NodeLoop(_, _, _, _)
NodeLoop(hh, k, path, i) ==
    IF i > Len(path) THEN Ok(k)
    ELSE LET r == Child(hh, k, path[i])
         IN  IF r.out # "ok" THEN Err(ZeroKey, "node derivation")
             ELSE NodeLoop(hh, r.val, path, i + 1)

\* Node with its loop starting at the first index again (for i := 0)
NodeLoopFromFirst(hh, m, path) ==
    IF Len(path) = 0 THEN Panic(ZeroKey, "index out of range [0] with length 0")
    ELSE LET first == Child(hh, m, path[1])
         IN  IF first.out # "ok" THEN Err(ZeroKey, "node initialization")
             ELSE NodeLoop(hh, first.val, path, 1)

Node(hh, m, path) ==
    IF Len(path) = 0 THEN Panic(ZeroKey, "index out of range [0] with length 0")
    ELSE LET first == Child(hh, m, path[1])
         IN  IF first.out # "ok" THEN Err(ZeroKey, "node initialization")
             ELSE NodeLoop(hh, first.val, path, 2)

\* the bitwise or of the bytes of bs
OrAll(bs) ==
    LET o(k) == IF \E i \in 1..Len(bs) : Bit(bs[i], k) = 1 THEN 2 ^ k ELSE 0
    IN  o(0) + o(1) + o(2) + o(3) + o(4) + o(5) + o(6) + o(7)

\* result after the loop result |= fp1[i] ^ fp2[i] over the first n positions
XorAcc(fp1, fp2, n) == OrAll([i \in 1..n |-> Xor8(fp1[i], fp2[i])])

\* Lineage whose comparison loop runs over no position
LineageNoLoop(hh, child, m) ==
    LET fp1 == child.Fingerprint
        fp2 == Fingerprint(hh, m.Key, child.Key)
    IN  IF fp2.out # "ok" THEN Err(FALSE, "lineage fingerprint recalculation")
        ELSE IF Len(fp1) # 16 \/ Len(fp2.val) # 16
             THEN Err(FALSE, "fingerprints for lineage verification must be 16 bytes each")
             ELSE Ok(XorAcc(fp1, fp2.val, 0) = 0)

\* Lineage that rejects only fingerprints shorter than 16 bytes
LineageAtLeast16(hh, child, m) ==
    LET fp1 == child.Fingerprint
        fp2 == Fingerprint(hh, m.Key, child.Key)
    IN  IF fp2.out # "ok" THEN Err(FALSE, "lineage fingerprint recalculation")
        ELSE IF Len(fp1) < 16 \/ Len(fp2.val) < 16
             THEN Err(FALSE, "fingerprints for lineage verification must be 16 bytes each")
             ELSE Ok(XorAcc(fp1, fp2.val, 16) = 0)

Lineage(hh, child, m) ==
    LET fp1 == child.Fingerprint
        fp2 == Fingerprint(hh, m.Key, child.Key)
    IN  IF fp2.out # "ok" THEN Err(FALSE, "lineage fingerprint recalculation")
        ELSE IF Len(fp1) # 16 \/ Len(fp2.val) # 16
             THEN Err(FALSE, "fingerprints for lineage verification must be 16 bytes each")
             ELSE Ok(XorAcc(fp1, fp2.val, 16) = 0)


(***************************************************************************)
(* strings.Split and strings.TrimSpace on text.  A text is a string for    *)
(* the caller and a sequence of one-character strings inside the parsers.  *)
(***************************************************************************)

Chars(str) == [i \in 1..Len(str) |-> SubSeq(str, i, i)]

\* whether sep occurs in s at position p
MatchAt(s, sep, p) ==
    /\ p + Len(sep) - 1 <= Len(s)
    /\ \A k \in 1..Len(sep) : s[p + k - 1] = sep[k]

\* The positions where strings.Split cuts s, in increasing order: it takes
\* the first occurrence of sep, then the first one that starts after the end
\* of the one taken, and so on.  The separators of this program are one
\* character long or " / ", whose occurrences overlap only when they are
\* Len(sep) - 1 apart; in a run of occurrences overlapping each other, the
\* first, the third, the fifth ... are taken.
Cuts(s, sep) ==
    LET step == Len(sep) - 1
        occ == {p \in 1..Len(s) : MatchAt(s, sep, p)}
        Run(p) == CHOOSE k \in 0..Len(s) :
                      /\ (p - step * (k + 1)) \notin occ
                      /\ \A j \in 1..k : (p - step * j) \in occ
        Cut(p) == p \in occ /\ (step = 0 \/ Run(p) % 2 = 0)
    IN  SelectSeq([p \in 1..Len(s) |-> p], Cut)

\* strings.Split(s, sep) for a non-empty sep
Split(s, sep) ==
    LET cuts == Cuts(s, sep)
        n == Len(cuts)
    IN  [k \in 1..(n + 1) |->
            SubSeq(s, IF k = 1 THEN 1 ELSE cuts[k - 1] + Len(sep),
                      IF k = n + 1 THEN Len(s) ELSE cuts[k] - 1)]

SpaceChars == {" ", "\t", "\n", "\r"}

\* strings.TrimSpace
TrimSpace(s) ==
    LET ink == {i \in 1..Len(s) : s[i] \notin SpaceChars}
    IN  IF ink = {} THEN <<>>
        ELSE SubSeq(s, CHOOSE i \in ink : \A j \in ink : i <= j,
                       CHOOSE i \in ink : \A j \in ink : j <= i)

(***************************************************************************)
(* hdsk.go: Schema.  An HDSchema is a sequence of <<label, type>> pairs.   *)
(***************************************************************************)

MaxSegments == 256

RootMarker == Chars("m")
TypeStr == Chars("str")
TypeNum == Chars("num")
TypeAny == Chars("any")
Allowed == {TypeStr, TypeNum, TypeAny}

\* the body of the loop of Schema for one segment
SchemaSegment(segment) ==
    LET parts == Split(segment, Chars(":"))
    IN  IF Len(parts) < 2
        THEN Panic(<<>>, "index out of range [1] with length 1")
        ELSE LET label == TrimSpace(parts[1])
                 typ == TrimSpace(parts[2])
             IN  IF Len(label) = 0 \/ Len(typ) = 0
                 THEN Err(<<>>, "invalid segment in schema")
                 ELSE IF typ \notin Allowed
                      THEN Err(<<>>, "invalid type for label in schema")
                      ELSE Ok(<<label, typ>>)

\* the loop of Schema over segments[1:]: the first segment that does not
\* parse ends the call
SchemaLoop(segments) ==
    LET steps == [i \in 1..(Len(segments) - 1) |-> SchemaSegment(segments[i + 1])]
        stop == {i \in 1..Len(steps) : steps[i].out # "ok"}
    IN  IF stop = {} THEN Ok([i \in 1..Len(steps) |-> steps[i].val])
        ELSE steps[CHOOSE i \in stop : \A j \in stop : i <= j]

\* Schema with the segment limit tested by >= instead of >
SchemaLimitOff(str) ==
    LET segments == Split(Chars(str), Chars(" / "))
    IN  IF Len(segments) >= MaxSegments
        THEN Err(<<>>, "schema cannot exceed 256 segments")
        ELSE IF segments[1] # RootMarker THEN Err(<<>>, "schema must begin with m")
             ELSE SchemaLoop(segments)

Schema(str) ==
    LET segments == Split(Chars(str), Chars(" / "))
    IN  IF Len(segments) > MaxSegments
        THEN Err(<<>>, "schema cannot exceed 256 segments")
        ELSE IF segments[1] # RootMarker THEN Err(<<>>, "schema must begin with m")
             ELSE SchemaLoop(segments)

(***************************************************************************)
(* utils.GetIndex with the hash parameter, and hdsk.go: Path.  An int is   *)
(* kept as its decimal numeral without leading zeros (values pass 2^31),   *)
(* and an index that passed the range check is a natural number.           *)
(***************************************************************************)

\* numRegex ^\d+$
isNumber(str) == Len(str) > 0 /\ \A i \in 1..Len(str) : str[i] \in Digits

\* strRegex ^[a-zA-Z\-]+$
isString(str) == Len(str) > 0 /\ \A i \in 1..Len(str) : str[i] \in Letters \cup {"-"}

DigitVal(c) == PosIn(DigitChars, c) - 1

\* a <= b for numerals without leading zeros
DecLeq(a, b) ==
    \/ Len(a) < Len(b)
    \/ /\ Len(a) = Len(b)
       /\ \/ a = b
          \/ \E k \in 1..Len(a) : /\ DigitVal(a[k]) < DigitVal(b[k])
                                  /\ \A j \in 1..(k - 1) : a[j] = b[j]

MaxInt64 == Chars("9223372036854775807")

\* 0x7FFFFFFF
MaxIndex == Chars("2147483647")

\* strconv.Atoi of an all-digit string, its error dropped: the value, or
\* the largest int when the value does not fit
Atoi(str) ==
    LET nz == {i \in 1..Len(str) : str[i] # "0"}
        num == IF nz = {} THEN <<"0">>
               ELSE SubSeq(str, CHOOSE i \in nz : \A j \in nz : i <= j, Len(str))
    IN  IF DecLeq(num, MaxInt64) THEN num ELSE MaxInt64

\* the natural number of a numeral of at most ten digits
ToNat(num) ==
    LET n == Len(num)
        d(k) == IF k <= n THEN DigitVal(num[k]) * (10 ^ (n - k)) ELSE 0
    IN  ((d(1) + d(2)) + (d(3) + d(4) + d(5))) + ((d(6) + d(7)) + (d(8) + d(9) + d(10)))

\* binary.BigEndian.Uint32 of four bytes, as <<hi, lo>>
BigEndianUint32(b) == <<b[1] * 256 + b[2], b[3] * 256 + b[4]>>

\* the index of a digest with its first four bytes read from the last one
\* (binary.LittleEndian.Uint32)
IndexOfDigestLittleEndian(hash) ==
    LET value == BigEndianUint32(<<hash[4], hash[3], hash[2], hash[1]>>)
    IN  (value[1] % 32768) * 65536 + value[2]

\* int(value % 0x80000000) for value the uint32 of hash[0:4]
IndexOfDigest(hash) ==
    LET value == BigEndianUint32(Slice(hash, 0, 4))
    IN  (value[1] % 32768) * 65536 + value[2]

\* an index in 0 .. 2^31-1 from a string, by the digest of its bytes
StrToIndex(hh, str) == IndexOfDigest(HashSum(hh, StrBytes(str)))

\* isValidIndex with the upper limit excluded (i < 0x7FFFFFFF)
isValidIndexBelow(i) == DecLeq(i, MaxIndex) /\ i # MaxIndex

\* i >= 0 && i <= 0x7FFFFFFF (a numeral is never negative)
isValidIndex(i) == DecLeq(i, MaxIndex)

\* GetIndex that resolves every index as under type any
GetIndexUntyped(hh, index, typ) ==
    IF typ \notin Allowed THEN Err(0, "invalid type")
    ELSE IF ~isNumber(index) /\ ~isString(index) THEN Err(0, "invalid index")
    ELSE LET i == IF isNumber(index) THEN Atoi(index)
                  ELSE Itoa(StrToIndex(hh, index))
         IN  IF isValidIndex(i) THEN Ok(ToNat(i))
             ELSE Err(0, "out of range index")

\* GetIndex whose case "any" lacks the alphabetic branch
GetIndexAnyNumOnly(hh, index, typ) ==
    IF typ \notin Allowed THEN Err(0, "invalid type")
    ELSE IF typ = TypeNum /\ ~isNumber(index) THEN Err(0, "invalid number index")
    ELSE IF typ = TypeStr /\ ~isString(index) THEN Err(0, "invalid string index")
    ELSE IF typ = TypeAny /\ ~isNumber(index) THEN Err(0, "invalid index")
    ELSE LET i == IF typ = TypeNum \/ typ = TypeAny
                  THEN Atoi(index)
                  ELSE Itoa(StrToIndex(hh, index))
         IN  IF isValidIndex(i) THEN Ok(ToNat(i))
             ELSE Err(0, "out of range index")

GetIndex(hh, index, typ) ==
    IF typ \notin Allowed THEN Err(0, "invalid type")
    ELSE IF typ = TypeNum /\ ~isNumber(index) THEN Err(0, "invalid number index")
    ELSE IF typ = TypeStr /\ ~isString(index) THEN Err(0, "invalid string index")
    ELSE IF typ = TypeAny /\ ~isNumber(index) /\ ~isString(index)
         THEN Err(0, "invalid index")
    ELSE LET i == IF typ = TypeNum \/ (typ = TypeAny /\ isNumber(index))
                  THEN Atoi(index)
                  ELSE Itoa(StrToIndex(hh, index))
         IN  IF isValidIndex(i) THEN Ok(ToNat(i))
             ELSE Err(0, "out of range index")

\* the loop of Path with the position in the error counted from 1
PathLoopFromOne(hh, indices, types, labels) ==
    LET steps == [i \in 1..Len(indices) |-> GetIndex(hh, indices[i], types[i])]
        stop == {i \in 1..Len(steps) : steps[i].out # "ok"}
    IN  IF stop = {} THEN Ok([i \in 1..Len(steps) |-> steps[i].val])
        ELSE LET i == CHOOSE i \in stop : \A j \in stop : i <= j
             IN  Err(<<>>, <<"derivation path position", i, labels[i], steps[i].err>>)

\* the loop of Path: the first index that does not resolve ends the call,
\* and the error names its position (from 0) and its label
PathLoop(hh, indices, types, labels) ==
    LET steps == [i \in 1..Len(indices) |-> GetIndex(hh, indices[i], types[i])]
        stop == {i \in 1..Len(steps) : steps[i].out # "ok"}
    IN  IF stop = {} THEN Ok([i \in 1..Len(steps) |-> steps[i].val])
        ELSE LET i == CHOOSE i \in stop : \A j \in stop : i <= j
             IN  Err(<<>>, <<"derivation path position", i - 1, labels[i], steps[i].err>>)

\* Path that reads the type of every index from the first schema entry
PathFirstType(hh, str, sch) ==
    LET segments == Split(Chars(str), Chars("/"))
    IN  IF segments[1] # RootMarker
        THEN Err(<<>>, "derivation path must begin with m")
        ELSE LET indices == SubSeq(segments, 2, Len(segments))
             IN  IF Len(indices) > Len(sch) THEN Err(<<>>, "too many indices in derivation path")
                 ELSE PathLoop(hh, indices, [i \in 1..Len(sch) |-> sch[1][2]],
                               [i \in 1..Len(sch) |-> sch[i][1]])

Path(hh, str, sch) ==
    LET segments == Split(Chars(str), Chars("/"))
    IN  IF segments[1] # RootMarker
        THEN Err(<<>>, "derivation path must begin with m")
        ELSE LET indices == SubSeq(segments, 2, Len(segments))
             IN  IF Len(indices) > Len(sch) THEN Err(<<>>, "too many indices in derivation path")
                 ELSE PathLoop(hh, indices, [i \in 1..Len(sch) |-> sch[i][2]],
                               [i \in 1..Len(sch) |-> sch[i][1]])

DefaultSchema == "m / application: any / purpose: any / context: any / index: num"
DefaultPath == "m/42/0/1/0"

(***************************************************************************)
(* The caller.  It picks a hash primitive, holds one key record as the     *)
(* parent of its derivations (master) and the key it derived last (key),   *)
(* and calls the package.  mprov and kprov record where master and key     *)
(* came from; res is the last call with its result.  Between derivations   *)
(* it may parse the default schema and path texts against it.  After a     *)
(* panic the process is gone and nothing more happens.                     *)
(***************************************************************************)

\* how many times the caller makes a derived key its next parent
MaxGen == 1

Secrets == {<<1>>, Zeros(16)}

\* key records the caller builds itself (HDKey has exported fields)
Literals ==
    { HDKey(<<1>>, <<2>>, Zero32, <<>>),
      HDKey(<<1>>, <<3>>, <<0, 5>>, <<>>),
      HDKey(<<2>>, <<2>>, Zero32, <<>>),
      HDKey(Zeros(16), <<9>>, Max32, Zeros(16)) }

Indices == {7, 2147483647}

Paths == {<<>>, <<7>>, <<42, 0, 1>>}

\* the goroutines that call the package at the same time, and the call of
\* one of them: its operation and arguments, its position (pc), its locals
\* and, once it has returned, its result; met records that a step of the
\* call was taken while another call was under way
Goroutines == {1, 2}

IdleRun ==
    [op |-> "none", arg |-> <<>>, pc |-> "idle", i |-> 0, cur |-> ZeroKey,
     salt |-> <<>>, ikm |-> <<>>, fp |-> <<>>, fp2 |-> <<>>, acc |-> <<>>,
     ret |-> Ok(<<>>), met |-> FALSE]

\* the arrays behind the byte slices the caller holds: that of its secret
\* and those of the Key and Code of its master and of its derived key;
\* heap maps each to its bytes (none where the slices are taken by value)
Arrays == {"secret", "master", "key"}
NoHeap == [a \in Arrays |-> <<>>]

NoProv == [op |-> "none", secret |-> <<>>, gen |-> 0]
NoKProv == [op |-> "none", parent |-> ZeroKey, path |-> <<>>]

\* rep: when the call repeats the call that produced the record the caller
\* still holds (same operation, same arguments), the call made just before it
Call(op, arg, r, rep) ==
    [op |-> op, arg |-> arg, out |-> r.out, err |-> r.err, val |-> r.val, rep |-> rep]

Alive == res.out # "panic"

Init ==
    /\ h \in Hashes
    /\ master = ZeroKey
    /\ mprov = NoProv
    /\ key = ZeroKey
    /\ kprov = NoKProv
    /\ schema = <<>>
    /\ res = Call("start", <<>>, Ok(<<>>), "")
    /\ run = [g \in Goroutines |-> IdleRun]
    /\ heap = NoHeap

\* master := HDKey{...}
DoLiteral(lit) ==
    /\ Alive
    /\ master' = lit
    /\ mprov' = [op |-> "lit", secret |-> <<>>, gen |-> 0]
    /\ key' = ZeroKey
    /\ kprov' = NoKProv
    /\ res' = Call("Literal", lit, Ok(lit), "")
    /\ UNCHANGED <<heap, run, h, schema>>

\* master, err := Master(h, secret)
DoMaster(secret) ==
    /\ Alive
    /\ \E r \in {Master(h, secret)} :
        /\ res' = Call("Master", secret, r,
                      IF mprov.op = "Master" /\ mprov.secret = secret THEN res.op ELSE "")
        /\ IF r.out = "ok"
           THEN /\ master' = r.val
                /\ mprov' = [op |-> "Master", secret |-> secret, gen |-> 0]
                /\ key' = ZeroKey
                /\ kprov' = NoKProv
           ELSE UNCHANGED <<master, mprov, key, kprov>>
        /\ UNCHANGED <<heap, run, h, schema>>

\* key, err := Child(h, &master, index)
DoChild(index) ==
    /\ Alive
    /\ mprov.op # "none"
    /\ \E r \in {Child(h, master, index)} :
        /\ res' = Call("Child", <<index>>, r,
                      IF kprov.op = "Child" /\ kprov.path = <<index>> THEN res.op ELSE "")
        /\ IF r.out = "ok"
           THEN /\ key' = r.val
                /\ kprov' = [op |-> "Child", parent |-> master, path |-> <<index>>]
           ELSE UNCHANGED <<key, kprov>>
        /\ UNCHANGED <<heap, run, h, master, mprov, schema>>

\* key, err := Node(h, &master, path)
DoNode(path) ==
    /\ Alive
    /\ mprov.op # "none"
    /\ \E r \in {Node(h, master, path)} :
        /\ res' = Call("Node", path, r, "")
        /\ IF r.out = "ok"
           THEN /\ key' = r.val
                /\ kprov' = [op |-> "Node", parent |-> master, path |-> path]
           ELSE UNCHANGED <<key, kprov>>
        /\ UNCHANGED <<heap, run, h, master, mprov, schema>>

\* master = key: the derived key becomes the parent of the next derivations
DoDescend ==
    /\ Alive
    /\ kprov.op # "none"
    /\ mprov.gen < MaxGen
    /\ master' = key
    /\ mprov' = [op |-> "Descend", secret |-> <<>>, gen |-> mprov.gen + 1]
    /\ key' = ZeroKey
    /\ kprov' = NoKProv
    /\ res' = Call("Descend", key, Ok(key), "")
    /\ UNCHANGED <<heap, run, h, schema>>

\* ok, err := Lineage(h, &child, &parent)
DoLineage(child, parent) ==
    /\ Alive
    /\ mprov.op # "none"
    /\ \E r \in {Lineage(h, child, parent)} :
        /\ res' = Call("Lineage", [child |-> child, parent |-> parent], r, "")
        /\ UNCHANGED <<heap, run, h, master, mprov, key, kprov, schema>>

\* schema, err := Schema(DefaultSchema)
DoSchema ==
    /\ Alive
    /\ mprov.op # "none"
    /\ Len(schema) = 0
    /\ \E r \in {Schema(DefaultSchema)} :
        /\ res' = Call("Schema", DefaultSchema, r, "")
        /\ schema' = IF r.out = "ok" THEN r.val ELSE schema
        /\ UNCHANGED <<heap, run, h, master, mprov, key, kprov>>

\* path, err := Path(h, str, schema)
DoPath(str) ==
    /\ Alive
    /\ Len(schema) > 0
    /\ \E r \in {Path(h, str, schema)} :
        /\ res' = Call("Path", str, r, "")
        /\ UNCHANGED <<heap, run, h, master, mprov, key, kprov, schema>>

Front(s) == SubSeq(s, 1, Len(s) - 1)

\* the record with its Fingerprint field emptied, cut by its last byte, or
\* extended by one byte (the fields of HDKey are exported)
Reshaped(k) ==
    {[k EXCEPT !.Fingerprint = fp] :
        fp \in {<<>>, Front(k.Fingerprint), Append(k.Fingerprint, 0)}}

\* the key the caller verifies: the one it derived last, or its master when
\* it derived none
LineageChildren == IF kprov.op = "none" THEN {master} ELSE {key}

\* the key one step above the node the caller derived last, which the caller
\* derives with the path cut by its last index
NodeAbove ==
    IF kprov.op = "Node" /\ Len(kprov.path) > 1
    THEN {Node(h, kprov.parent, Front(kprov.path)).val}
    ELSE {}

LineageParents == {master} \cup {l \in Literals : l.Depth # Max32} \cup NodeAbove

Next ==
    \/ \E lit \in Literals : DoLiteral(lit)
    \/ \E secret \in Secrets : DoMaster(secret)
    \/ \E index \in Indices : DoChild(index)
    \/ \E path \in Paths : DoNode(path)
    \/ DoDescend
    \/ \E c \in LineageChildren, p \in LineageParents : DoLineage(c, p)
    \/ DoSchema
    \/ \E str \in {DefaultPath, "m/abc"} : DoPath(str)

Spec == Init /\ [][Next]_vars

(***************************************************************************)
(* The caller that verifies records it has changed: it derives a master    *)
(* and children as above, and verifies the key it holds, as returned and   *)
(* with the fingerprint reshaped, against its master and against every     *)
(* record it can build.                                                    *)
(***************************************************************************)

ReshapedChildren == UNION {{c} \cup Reshaped(c) : c \in LineageChildren}

NextShape ==
    \/ \E lit \in Literals : DoLiteral(lit)
    \/ \E secret \in Secrets : DoMaster(secret)
    \/ \E index \in Indices : DoChild(index)
    \/ \E c \in ReshapedChildren, p \in LineageParents \cup Literals : DoLineage(c, p)

SpecShape == Init /\ [][NextShape]_vars


(***************************************************************************)
(* Concurrent callers.  Two goroutines call the package at the same time   *)
(* on the same arguments: the key record master and the derived record     *)
(* key (both passed by reference), the parsed schema and the bytes of the  *)
(* secret (mprov.secret).  A call proceeds in steps, one per place where   *)
(* the code reads an argument; res.arg keeps the arguments as they were    *)
(* when the goroutines started.                                            *)
(***************************************************************************)

ConcMaster == HDKey(Zeros(16), <<9>>, <<0, 5>>, Zeros(16))

ConcCalls ==
    { <<"Master", <<>>>>, <<"Child", 7>>, <<"Child", 2147483647>>,
      <<"Node", <<42, 0>>>>, <<"Lineage", <<>>>>, <<"Schema", DefaultSchema>>,
      <<"Path", DefaultPath>>, <<"Path", "m/abc/7a">> }

InitConc ==
    /\ h \in Hashes
    /\ master = ConcMaster
    /\ mprov = [op |-> "lit", secret |-> Zeros(16), gen |-> 0]
    /\ key = Child(h, ConcMaster, 7).val
    /\ kprov = NoKProv
    /\ schema = Schema(DefaultSchema).val
    /\ res = Call("start", [master |-> master, key |-> key, schema |-> schema,
                            secret |-> mprov.secret], Ok(<<>>), "")
    /\ run = [g \in Goroutines |-> IdleRun]
    /\ heap = NoHeap

Busy(g) == run[g].pc \notin {"idle", "done"}
Meets(g) == run[g].met \/ \E o \in Goroutines \ {g} : Busy(o)

\* the call of g takes a step to the locals loc; the arguments stay as
\* they are
Step(g, loc) ==
    /\ run' = [run EXCEPT ![g] = [loc EXCEPT !.met = Meets(g)]]
    /\ UNCHANGED <<heap, h, master, mprov, key, kprov, schema, res>>

\* the call of g returns r
Return(g, r) == Step(g, [run[g] EXCEPT !.pc = "done", !.ret = r])

FirstPc(op) ==
    CASE op \in {"Master", "Child", "Node"} -> "salt"
      [] op = "Lineage" -> "fp1"
      [] op = "Schema" -> "parse"
      [] op = "Path" -> "split"

\* go Master(h, secret), go Child(h, &master, index), ...
Begin(g, c) ==
    /\ run[g].pc = "idle"
    /\ Step(g, [IdleRun EXCEPT !.op = c[1], !.arg = c[2], !.pc = FirstPc(c[1]), !.i = 1])

\* the record behind the pointer Child was given: master, or the local key
\* of Node from its second index on
Parent(g) == IF run[g].op = "Node" /\ run[g].i > 1 THEN run[g].cur ELSE master

ChildIndex(g) == IF run[g].op = "Node" THEN run[g].arg[run[g].i] ELSE run[g].arg

\* the error a failing step returns, wrapped by Node when Node made the call
Failure(g, step) ==
    Err(ZeroKey,
        CASE run[g].op = "Master" -> "master key " \o step
          [] run[g].op = "Child" -> "child key " \o step
          [] run[g].op = "Node" ->
                IF run[g].i = 1 THEN "node initialization" ELSE "node derivation")

\* info1 as one buffer of the package: it holds the index that another
\* call has encoded since
Info1Shared(g, index) ==
    LET wrote == {o \in Goroutines \ {g} : run[o].op \in {"Child", "Node"} /\ Busy(o)}
    IN  IF wrote = {} THEN PutUint32(index)
        ELSE PutUint32(ChildIndex(CHOOSE o \in wrote : TRUE))

\* info1 of the call of g: make([]byte, 4), filled by PutUint32
Info1(g, index) == PutUint32(index)

\* salt, err := utils.CalcSalt(...)
StepSalt(g) ==
    /\ run[g].pc = "salt"
    /\ LET r == IF run[g].op = "Master" THEN CalcSalt(h, mprov.secret, <<>>)
                ELSE CalcSalt(h, Parent(g).Code, Info1(g, ChildIndex(g)))
       IN  IF r.out # "ok" THEN Return(g, Failure(g, "salt"))
           ELSE Step(g, [run[g] EXCEPT !.pc = "hkdf", !.salt = r.val])

\* ikm, err := hkdf.Key(...)
StepHkdf(g) ==
    /\ run[g].pc = "hkdf"
    /\ LET r == IF run[g].op = "Master"
                THEN HkdfKey(h, mprov.secret, run[g].salt, MasterInfo, 64)
                ELSE HkdfKey(h, Parent(g).Code, run[g].salt,
                             StrBytes(ChildTag \o Itoa(ChildIndex(g))), 64)
       IN  IF r.out # "ok" THEN Return(g, Failure(g, "hkdf"))
           ELSE Step(g, [run[g] EXCEPT !.pc = "fp", !.ikm = r.val])

\* fp, err := utils.Fingerprint(...)
StepFp(g) ==
    /\ run[g].pc = "fp"
    /\ LET r == Fingerprint(h, IF run[g].op = "Master" THEN mprov.secret
                               ELSE Parent(g).Key,
                            Slice(run[g].ikm, 0, 32))
       IN  IF r.out # "ok" THEN Return(g, Failure(g, "fingerprint"))
           ELSE Step(g, [run[g] EXCEPT !.pc = "make", !.fp = r.val])

\* key := HDKey{...}; return key, nil (in Node: the next index, or return)
StepMake(g) ==
    /\ run[g].pc = "make"
    /\ LET made == HDKey(Slice(run[g].ikm, 0, 32), Slice(run[g].ikm, 32, 64),
                         IF run[g].op = "Master" THEN Zero32 ELSE Inc32(Parent(g).Depth),
                         run[g].fp)
       IN  IF run[g].op = "Node" /\ run[g].i < Len(run[g].arg)
           THEN Step(g, [run[g] EXCEPT !.pc = "salt", !.cur = made, !.i = @ + 1])
           ELSE Return(g, Ok(made))

\* fp1 := child.Fingerprint
StepFp1(g) ==
    /\ run[g].pc = "fp1"
    /\ Step(g, [run[g] EXCEPT !.pc = "fp2", !.fp = key.Fingerprint])

\* fp2, err := utils.Fingerprint(h, master.Key, child.Key)
StepFp2(g) ==
    /\ run[g].pc = "fp2"
    /\ LET r == Fingerprint(h, master.Key, key.Key)
       IN  IF r.out # "ok" THEN Return(g, Err(FALSE, "lineage fingerprint recalculation"))
           ELSE Step(g, [run[g] EXCEPT !.pc = "cmp", !.fp2 = r.val])

\* the length test and the comparison loop
StepCmp(g) ==
    /\ run[g].pc = "cmp"
    /\ IF Len(run[g].fp) # 16 \/ Len(run[g].fp2) # 16
       THEN Return(g, Err(FALSE, "fingerprints for lineage verification must be 16 bytes each"))
       ELSE Return(g, Ok(XorAcc(run[g].fp, run[g].fp2, 16) = 0))

\* Schema(str): it has no argument but the text
StepParse(g) ==
    /\ run[g].pc = "parse"
    /\ Return(g, Schema(run[g].arg))

PathIndices(g) ==
    LET segments == Split(Chars(run[g].arg), Chars("/"))
    IN  SubSeq(segments, 2, Len(segments))

\* the split of the path text and the tests before the loop
StepSplit(g) ==
    /\ run[g].pc = "split"
    /\ IF Split(Chars(run[g].arg), Chars("/"))[1] # RootMarker
       THEN Return(g, Err(<<>>, "derivation path must begin with m"))
       ELSE IF Len(PathIndices(g)) > Len(schema)
            THEN Return(g, Err(<<>>, "too many indices in derivation path"))
            ELSE IF Len(PathIndices(g)) = 0 THEN Return(g, Ok(<<>>))
                 ELSE Step(g, [run[g] EXCEPT !.pc = "index"])

\* one round of the loop of Path
StepIndex(g) ==
    /\ run[g].pc = "index"
    /\ LET i == run[g].i
           r == GetIndex(h, PathIndices(g)[i], schema[i][2])
       IN  IF r.out # "ok"
           THEN Return(g, Err(<<>>, <<"derivation path position", i - 1, schema[i][1], r.err>>))
           ELSE IF i = Len(PathIndices(g)) THEN Return(g, Ok(Append(run[g].acc, r.val)))
                ELSE Step(g, [run[g] EXCEPT !.acc = Append(@, r.val), !.i = i + 1])

NextConc ==
    \/ \E g \in Goroutines, c \in ConcCalls : Begin(g, c)
    \/ \E g \in Goroutines : StepSalt(g)
    \/ \E g \in Goroutines : StepHkdf(g)
    \/ \E g \in Goroutines : StepFp(g)
    \/ \E g \in Goroutines : StepMake(g)
    \/ \E g \in Goroutines : StepFp1(g)
    \/ \E g \in Goroutines : StepFp2(g)
    \/ \E g \in Goroutines : StepCmp(g)
    \/ \E g \in Goroutines : StepParse(g)
    \/ \E g \in Goroutines : StepSplit(g)
    \/ \E g \in Goroutines : StepIndex(g)

SpecConc == InitConc /\ [][NextConc]_vars

(***************************************************************************)
(* The comparison loop of Lineage, one round at a time.  The caller holds  *)
(* a parent and the child it derived from it, may change one byte of the   *)
(* child's fingerprint, and has one goroutine verify the child against the *)
(* parent.  acc holds the values result has taken, one per round; i is the *)
(* number of rounds made.                                                  *)
(***************************************************************************)

Verifier == CHOOSE g \in Goroutines : TRUE

\* the bits the caller flips in one byte of the fingerprint
Flips == {1, 128, 255}

\* k.Fingerprint[p] ^= d
Tampered(k, p, d) == [k EXCEPT !.Fingerprint[p] = Xor8(@, d)]

\* the caller changes byte p of the fingerprint of the child it holds
DoTamper(p, d) ==
    /\ res.op = "start"
    /\ run[Verifier].pc = "idle"
    /\ p <= Len(key.Fingerprint)
    /\ key' = Tampered(key, p, d)
    /\ res' = Call("Tamper", <<p, d>>, Ok(key'), "")
    /\ UNCHANGED <<heap, run, h, master, mprov, kprov, schema>>

\* var result byte: its value now
Result(g) == IF Len(run[g].acc) = 0 THEN 0 ELSE run[g].acc[Len(run[g].acc)]

\* if len(fp1) != 16 || len(fp2) != 16 { return false, errors.New(...) }
\* var result byte = 0
StepLen(g) ==
    /\ run[g].pc = "cmp"
    /\ IF Len(run[g].fp) # 16 \/ Len(run[g].fp2) # 16
       THEN Return(g, Err(FALSE, "fingerprints for lineage verification must be 16 bytes each"))
       ELSE Step(g, [run[g] EXCEPT !.pc = "loop", !.i = 0, !.acc = <<>>])

\* a loop that stops at the first pair of different bytes
LoopUntilMismatch(i, result) == i < 16 /\ result = 0

\* for i := range 16: whether a round follows the first i rounds
LoopGoesOn(i, result) == i < 16

\* result |= fp1[i] ^ fp2[i]
StepRound(g) ==
    /\ run[g].pc = "loop"
    /\ LoopGoesOn(run[g].i, Result(g))
    /\ LET i == run[g].i
       IN  Step(g, [run[g] EXCEPT
                !.i = i + 1,
                !.acc = Append(@, Or8(Result(g), Xor8(run[g].fp[i + 1], run[g].fp2[i + 1])))])

\* return result == 0, nil
StepResult(g) ==
    /\ run[g].pc = "loop"
    /\ ~LoopGoesOn(run[g].i, Result(g))
    /\ Return(g, Ok(Result(g) = 0))

NextCmp ==
    \/ \E p \in 1..16, d \in Flips : DoTamper(p, d)
    \/ Begin(Verifier, <<"Lineage", <<>>>>)
    \/ StepFp1(Verifier)
    \/ StepFp2(Verifier)
    \/ StepLen(Verifier)
    \/ StepRound(Verifier)
    \/ StepResult(Verifier)

SpecCmp == InitConc /\ [][NextCmp]_vars

(***************************************************************************)
(* Storage.  Here the Key and Code of a key record are slices as Go holds  *)
(* them: the array they point into, the offset there, the length and the   *)
(* capacity; heap holds the bytes of the arrays.  The caller derives a     *)
(* master from its secret and children from the master, writes into the    *)
(* Key of a record it holds and appends to it.                             *)
(***************************************************************************)

\* s[lo:hi]
Reslice(s, lo, hi) ==
    [arr |-> s.arr, off |-> s.off + lo, len |-> hi - lo, cap |-> s.cap - lo]

\* the bytes of the slice s
Load(mem, s) == [i \in 1..s.len |-> mem[s.arr][s.off + i]]

\* s[i] = b
Store(mem, s, i, b) == [mem EXCEPT ![s.arr][s.off + i + 1] = b]

\* append(s, b): within the capacity of s the byte goes into the array
\* behind s, beyond it into a new array that only the result points to
AppendByte(mem, s, b) ==
    IF s.len < s.cap THEN [mem EXCEPT ![s.arr][s.off + s.len + 1] = b] ELSE mem

\* the capacities the 64-byte slice returned by hkdf.Key may have
IkmCaps == {64, 80}

\* ikm: a slice of 64 bytes over the new array a
Ikm(a, c) == [arr |-> a, off |-> 0, len |-> 64, cap |-> c]

\* master := ikm[:32]; code := ikm[32:64]; HDKey{Key: master, Code: code, ...}
Placed(ikm, rec) ==
    [rec EXCEPT !.Key = Reslice(ikm, 0, 32), !.Code = Reslice(ikm, 32, 64)]

\* the key record as its reader sees it
Seen(mem, rec) ==
    HDKey(Load(mem, rec.Key), Load(mem, rec.Code), rec.Depth, rec.Fingerprint)

\* secret := []byte{...}; master, err := Master(h, secret)
MemMaster(secret, c) ==
    /\ mprov.op = "none"
    /\ \E r \in {Master(h, secret)} :
        /\ res' = Call("Master", secret, r, "")
        /\ IF r.out = "ok"
           THEN /\ heap' = [heap EXCEPT
                        !["secret"] = secret,
                        !["master"] = r.val.Key \o r.val.Code \o Zeros(c - 64)]
                /\ master' = Placed(Ikm("master", c), r.val)
                /\ mprov' = [op |-> "Master", secret |-> secret, gen |-> 0]
           ELSE UNCHANGED <<heap, master, mprov>>
        /\ UNCHANGED <<run, h, key, kprov, schema>>

\* key, err := Child(h, &master, index)
MemChild(index, c) ==
    /\ mprov.op = "Master"
    /\ \E r \in {Child(h, Seen(heap, master), index)} :
        /\ res' = Call("Child", <<index>>, r, "")
        /\ IF r.out = "ok"
           THEN /\ heap' = [heap EXCEPT
                        !["key"] = r.val.Key \o r.val.Code \o Zeros(c - 64)]
                /\ key' = Placed(Ikm("key", c), r.val)
                /\ kprov' = [op |-> "Child", parent |-> master, path |-> <<index>>]
           ELSE UNCHANGED <<heap, key, kprov>>
        /\ UNCHANGED <<run, h, master, mprov, schema>>

\* the records the caller holds, by the name of their array
Held ==
    {who \in {"master"} : mprov.op = "Master"} \cup {who \in {"key"} : kprov.op = "Child"}

Rec(who) == IF who = "master" THEN master ELSE key

\* what the caller reads beside the Key of who: the Code of who, its secret,
\* and the Key and Code of the other records it holds
Rest(mem, who) ==
    [code |-> Load(mem, Rec(who).Code),
     secret |-> mem["secret"],
     others |-> [o \in Held \ {who} |->
                    <<Load(mem, Rec(o).Key), Load(mem, Rec(o).Code)>>]]

\* rec.Key[i] = 0xFF
MemStore(who, i) ==
    /\ who \in Held
    /\ heap' = Store(heap, Rec(who).Key, i, 255)
    /\ res' = Call("Store", [who |-> who, rest |-> Rest(heap, who)],
                  Ok(Rest(heap', who)), "")
    /\ UNCHANGED <<run, h, master, mprov, key, kprov, schema>>

\* _ = append(rec.Key, 0xFF)
MemAppend(who) ==
    /\ who \in Held
    /\ heap' = AppendByte(heap, Rec(who).Key, 255)
    /\ res' = Call("Append", [who |-> who, rest |-> Rest(heap, who)],
                  Ok(Rest(heap', who)), "")
    /\ UNCHANGED <<run, h, master, mprov, key, kprov, schema>>

NextMem ==
    \/ \E secret \in Secrets, c \in IkmCaps : MemMaster(secret, c)
    \/ \E index \in Indices, c \in IkmCaps : MemChild(index, c)
    \/ \E who \in Arrays, i \in {0, 31} : MemStore(who, i)
    \/ \E who \in Arrays : MemAppend(who)

SpecMem == Init /\ [][NextMem]_vars

(***************************************************************************)
(* The caller of internal/hkdf: it derives output key material of several  *)
(* lengths, up to three blocks.                                            *)
(***************************************************************************)

KdfSecrets == {<<1>>, Zeros(16), <<7, 7, 7>>}
KdfSalts == {<<>>, <<9>>, Zeros(16)}
KdfInfos == {<<>>, MasterInfo}
KdfLengths == {0, 1, 32, 64, 65, 128, 130}

\* ikm, err := hkdf.Hkdf(bytes, salt, info, length)
CallHkdf(ikm, salt, info, length) ==
    /\ Alive
    /\ res.op = "start"
    /\ res' = Call("Hkdf", [ikm |-> ikm, salt |-> salt, info |-> info, length |-> length],
                  Hkdf(ikm, salt, info, length), "")
    /\ UNCHANGED <<heap, run, h, master, mprov, key, kprov, schema>>

NextKdf ==
    \E ikm \in KdfSecrets, salt \in KdfSalts, info \in KdfInfos, length \in KdfLengths :
        CallHkdf(ikm, salt, info, length)

SpecKdf == Init /\ [][NextKdf]_vars

(***************************************************************************)
(* The caller of the parsers.  It parses schema texts until one parses,    *)
(* then parses path texts against that schema; schema holds the parsed     *)
(* schema.  GetIndex is also called on its own, on index strings of every  *)
(* kind under every type name.                                             *)
(***************************************************************************)

\* " / a:num" repeated 2, 4, ... 128 times, and 255 times
Seg1 == " / a:num"
Seg2 == Seg1 \o Seg1
Seg4 == Seg2 \o Seg2
Seg8 == Seg4 \o Seg4
Seg16 == Seg8 \o Seg8
Seg32 == Seg16 \o Seg16
Seg64 == Seg32 \o Seg32
Seg128 == Seg64 \o Seg64
Seg255 == Seg128 \o Seg64 \o Seg32 \o Seg16 \o Seg8 \o Seg4 \o Seg2 \o Seg1

\* the root and 255 segments, and one segment more
Schema256 == "m" \o Seg255
Schema257 == Schema256 \o Seg1

SchemaTexts ==
    { DefaultSchema, "m", "m / index: str", "m / index: num",
      "m / a:num / b:str / c:any", "m /  a : num  / b:str", "m / / a:num",
      "", "x / a:num", "m / application", "m / label:", "m / :num", "m / : ",
      "m / a:int", "m / a:b:num", "m / a:num / b", "m / a:num / b:", "m / a:num /  / c:any",
      Schema256, Schema257 }

PathTexts ==
    { DefaultPath, "m", "m/7", "m/7/8", "m/abc", "m/abc/x-y", "m/7/ab/-", "m/7/ab/a1",
      "m/", "", "x/7", "M/7", "m /7", "m/1/2/3/4/5", "m/2147483647", "m/2147483648",
      "m/007", "m/7a", "m/x/7/ab" }

IndexTexts ==
    { "7", "0", "007", "0000", "42", "2147483647", "2147483648", "4294967295",
      "4294967296", "99999999999", "99999999999999999999", "", "7a", "-7", " 7",
      "abc", "x-y", "-", "Zz", "a b", "a1", "a/b" }

TypeNames == {"num", "str", "any", "int", ""}

SchemaParsed ==
    \/ res.op = "Schema" /\ res.out = "ok"
    \/ res.op = "Path"

\* schema, err := Schema(str)
CallSchema(str) ==
    /\ Alive
    /\ res.op \in {"start", "Schema"}
    /\ ~SchemaParsed
    /\ \E r \in {Schema(str)} :
        /\ res' = Call("Schema", str, r, "")
        /\ schema' = IF r.out = "ok" THEN r.val ELSE schema
        /\ UNCHANGED <<heap, run, h, master, mprov, key, kprov>>

\* path, err := Path(h, str, schema)
CallPath(str) ==
    /\ Alive
    /\ SchemaParsed
    /\ \E r \in {Path(h, str, schema)} :
        /\ res' = Call("Path", str, r, "")
        /\ UNCHANGED <<heap, run, h, master, mprov, key, kprov, schema>>

\* idx, err := utils.GetIndex(h, index, typ)
CallGetIndex(index, typ) ==
    /\ Alive
    /\ res.op = "start"
    /\ \E r \in {GetIndex(h, Chars(index), Chars(typ))} :
        /\ res' = Call("GetIndex", [index |-> index, typ |-> typ], r, "")
        /\ UNCHANGED <<heap, run, h, master, mprov, key, kprov, schema>>

\* i := utils.StrToIndex(h, str)
CallStrToIndex(str) ==
    /\ Alive
    /\ res.op = "start"
    /\ res' = Call("StrToIndex", str, Ok(StrToIndex(h, Chars(str))), "")
    /\ UNCHANGED <<heap, run, h, master, mprov, key, kprov, schema>>

NextParse ==
    \/ \E str \in SchemaTexts : CallSchema(str)
    \/ \E str \in PathTexts : CallPath(str)
    \/ \E index \in IndexTexts, typ \in TypeNames : CallGetIndex(index, typ)
    \/ \E str \in IndexTexts : CallStrToIndex(str)

SpecParse == Init /\ [][NextParse]_vars


(***************************************************************************)
(* Properties                                                              *)
(***************************************************************************)

\* Child applied along path, last index last: the manual fold of Child
RECURSIVE FoldChild(_, _, _)
FoldChild(hh, m, path) ==
    IF Len(path) = 0 THEN Ok(m)
    ELSE LET p == FoldChild(hh, m, Front(path))
         IN  IF p.out # "ok" THEN Err(ZeroKey, "fold")
             ELSE LET c == Child(hh, p.val, path[Len(path)])
                  IN  IF c.out # "ok" THEN Err(ZeroKey, "fold") ELSE c

\* the key the derived key descends from by one step
DirectParent == FoldChild(h, kprov.parent, Front(kprov.path)).val

LineageOfDerived ==
    /\ res.op = "Lineage"
    /\ kprov.op # "none"
    /\ res.arg.child = key

\* C1: lineage soundness. Whenever Child (or Node) succeeded, Lineage of the
\* derived key against the key one step above it returns true with no error.
C1_LineageSound ==
    (LineageOfDerived /\ res.arg.parent = DirectParent)
        => (res.out = "ok" /\ res.val = TRUE)

\* a child of a caller-built parent with a non-zero depth, verified
C1_Witness ==
    /\ LineageOfDerived
    /\ kprov.op = "Child"
    /\ mprov.op = "lit"
    /\ master.Depth # Zero32
    /\ res.arg.parent = master
    /\ res.val = TRUE

\* C2 as stated: for every alleged parent P' other than the parent P,
\* Lineage(h, Child(h, P, i), P') returns false.
C2_AnyOtherParent ==
    (LineageOfDerived /\ kprov.op = "Child" /\ res.arg.parent # kprov.parent)
        => res.val = FALSE

\* C2 amended: for every alleged parent P' whose Key differs from the Key of
\* the parent P, Lineage(h, Child(h, P, i), P') returns false.
C2_OtherParentKey ==
    (LineageOfDerived /\ kprov.op = "Child" /\ res.arg.parent.Key # kprov.parent.Key)
        => res.val = FALSE

\* a child verified against a record with another Key: no error, false
C2_Witness ==
    /\ LineageOfDerived
    /\ kprov.op = "Child"
    /\ res.arg.parent.Key # kprov.parent.Key
    /\ res.out = "ok"
    /\ res.val = FALSE

\* C3: Node on a non-empty path returns what folding Child over the path
\* returns: the same key record, or a failure where the fold fails.
C3_NodeIsFold ==
    (res.op = "Node" /\ Len(res.arg) > 0)
        => LET f == FoldChild(h, master, res.arg)
           IN  /\ (res.out = "ok") = (f.out = "ok")
               /\ res.out \in {"ok", "error"}
               /\ res.val = f.val

\* a node three steps below its master
C3_Witness ==
    /\ res.op = "Node"
    /\ res.out = "ok"
    /\ Len(res.arg) = 3
    /\ res.val.Depth = <<0, 3>>

\* whether uint32 d holds the integer p + 1 (no uint32 holds 2^32)
IsSuccessor32(d, p) ==
    \/ p[2] < 65535 /\ d = <<p[1], p[2] + 1>>
    \/ p[2] = 65535 /\ p[1] < 65535 /\ d = <<p[1] + 1, 0>>

\* C4: Master returns depth 0, and Child returns a key whose depth is the
\* integer parent.depth + 1, for every value the parent's Depth can hold.
C4_DepthPlusOne ==
    /\ (res.op = "Master" /\ res.out = "ok") => res.val.Depth = Zero32
    /\ (res.op = "Child" /\ res.out = "ok") => IsSuccessor32(res.val.Depth, master.Depth)

C6_EmptyPathIsError ==
    (res.op = "Node" /\ Len(res.arg) = 0) => res.out = "error"

\* the texts between the " / " separators after the root of a schema text
RestSegments(str) ==
    LET segments == Split(Chars(str), Chars(" / "))
    IN  SubSeq(segments, 2, Len(segments))

Blank(s) == \A i \in 1..Len(s) : s[i] \in SpaceChars

\* the segment has no ":", or nothing but spaces before its first ":", or
\* nothing but spaces between its first ":" and its second ":" or its end
LacksLabelOrType(segment) ==
    LET colons == {i \in 1..Len(segment) : segment[i] = ":"}
        first == CHOOSE i \in colons : \A j \in colons : i <= j
        later == {i \in colons : i > first}
        second == IF later = {} THEN Len(segment) + 1
                  ELSE CHOOSE i \in later : \A j \in later : i <= j
    IN  \/ colons = {}
        \/ Blank(SubSeq(segment, 1, first - 1))
        \/ Blank(SubSeq(segment, first + 1, second - 1))

\* C7: Schema returns an error value, and does not crash, for every schema
\* text in which some segment after the root lacks a label or a type.
C7_MalformedSegmentIsError ==
    res.op = "Schema" =>
        LET rest == RestSegments(res.arg)
        IN  (\E k \in 1..Len(rest) : LacksLabelOrType(rest[k])) => res.out = "error"

\* the places where " / " occurs in a schema text
SepPlaces(str) == {p \in 1..(Len(str) - 2) : SubSeq(str, p, p + 2) = " / "}

\* no two occurrences share a space, so the text has one segment more than
\* it has occurrences
Separate(str) ==
    LET places == SepPlaces(str)
    IN  \A p \in places : (p + 2) \notin places

\* a label, one ":" and one of the three type names, spaces aside
WellFormed(segment) ==
    \E c \in 1..Len(segment) :
        /\ segment[c] = ":"
        /\ \A i \in 1..Len(segment) : segment[i] = ":" => i = c
        /\ ~Blank(SubSeq(segment, 1, c - 1))
        /\ \E a \in (c + 1)..Len(segment) :
            /\ a + 2 <= Len(segment)
            /\ SubSeq(segment, a, a + 2) \in {Chars("str"), Chars("num"), Chars("any")}
            /\ Blank(SubSeq(segment, c + 1, a - 1))
            /\ Blank(SubSeq(segment, a + 3, Len(segment)))

\* C8: a schema text of 257 or more segments fails; a well-formed text of at
\* most 256 segments, the root "m" and label:type segments, succeeds with
\* one entry per segment after the root (255 for 256 segments); every schema
\* returned has at most 255 entries.
C8_SchemaBound ==
    /\ Len(schema) <= 255
    /\ res.op = "Schema" =>
        LET n == Cardinality(SepPlaces(res.arg))
            rest == RestSegments(res.arg)
        IN  /\ (Separate(res.arg) /\ n >= 256) => res.out = "error"
            /\ (/\ Separate(res.arg)
                /\ n <= 255
                /\ Len(res.arg) > 0
                /\ SubSeq(res.arg, 1, 1) = "m"
                /\ (Len(res.arg) = 1 \/ 2 \in SepPlaces(res.arg))
                /\ \A k \in 1..Len(rest) : WellFormed(rest[k]))
                   => (res.out = "ok" /\ Len(res.val) = n)
            /\ res.out = "ok" => (Len(res.val) <= 255 /\ schema = res.val)

\* the text of 256 segments parsed into 255 entries
C8_Witness ==
    /\ res.op = "Schema"
    /\ Cardinality(SepPlaces(res.arg)) = 255
    /\ res.out = "ok"
    /\ Len(schema) = 255

\* the places of "/" in a path text, and the place of the k-th one
Slashes(str) == {p \in 1..Len(str) : SubSeq(str, p, p) = "/"}
NthSlash(str, k) ==
    CHOOSE p \in Slashes(str) : Cardinality({q \in Slashes(str) : q < p}) = k - 1

\* the text before the first "/"
RootText(str) ==
    IF Slashes(str) = {} THEN str ELSE SubSeq(str, 1, NthSlash(str, 1) - 1)

\* the text between the k-th "/" and the next one, or the end
IndexText(str, k) ==
    LET to == IF k = Cardinality(Slashes(str)) THEN Len(str)
              ELSE NthSlash(str, k + 1) - 1
    IN  [i \in 1..(to - NthSlash(str, k)) |->
            SubSeq(str, NthSlash(str, k) + i, NthSlash(str, k) + i)]

\* C9: Path fails when the text before the first "/" is not "m" and when the
\* text has more index segments than the schema has entries; a path returned
\* has one index per index segment, in order, at most as many as the schema
\* has entries, and its k-th index is what the k-th segment resolves to under
\* the type of the k-th schema entry.
C9_PathShape ==
    res.op = "Path" =>
        LET n == Cardinality(Slashes(res.arg))
        IN  /\ RootText(res.arg) # "m" => res.out = "error"
            /\ n > Len(schema) => res.out = "error"
            /\ res.out = "ok" =>
                /\ Len(res.val) = n
                /\ n <= Len(schema)
                /\ \A k \in 1..n :
                       GetIndex(h, IndexText(res.arg, k), schema[k][2]) = Ok(res.val[k])

\* three indices resolved under num, str and any
C9_Witness ==
    /\ res.op = "Path"
    /\ res.out = "ok"
    /\ Len(res.val) = 3
    /\ res.val[1] = 7
    /\ <<schema[1][2], schema[2][2], schema[3][2]>> = <<TypeNum, TypeStr, TypeAny>>

AllDigits(s) == Len(s) > 0 /\ \A i \in 1..Len(s) : s[i] \in {"0", "1", "2", "3", "4", "5", "6", "7", "8", "9"}

\* an all-digit string without its leading zeros ("0" when nothing is left)
Canon(s) ==
    LET z == CHOOSE k \in 0..Len(s) :
                 /\ \A j \in 1..k : s[j] = "0"
                 /\ (k = Len(s) \/ s[k + 1] # "0")
    IN  IF z = Len(s) THEN <<"0">> ELSE SubSeq(s, z + 1, Len(s))

OnlyLettersAndHyphens(s) ==
    Len(s) > 0 /\ \A i \in 1..Len(s) : s[i] \in Range(LowerChars) \cup Range(UpperChars) \cup {"-"}

\* schema "m / index: str" with path "m/7" fails
StrSchemaRejectsSeven ==
    (res.op = "Path" /\ res.arg = "m/7" /\ Len(schema) = 1 /\ schema[1][2] = TypeStr)
        => res.out = "error"

\* C10 as stated: under num every all-digit string resolves to its decimal
\* value and every other string is rejected; under str every all-digit
\* string is rejected and only strings of letters and hyphens are accepted.
C10_EveryDigitString ==
    /\ StrSchemaRejectsSeven
    /\ res.op = "GetIndex" =>
        LET index == Chars(res.arg.index)
        IN  /\ (res.arg.typ = "num" /\ AllDigits(index))
                   => (res.out = "ok" /\ Itoa(res.val) = Canon(index))
            /\ (res.arg.typ = "num" /\ ~AllDigits(index)) => res.out = "error"
            /\ (res.arg.typ = "str" /\ AllDigits(index)) => res.out = "error"
            /\ (res.arg.typ = "str" /\ res.out = "ok") => OnlyLettersAndHyphens(index)

\* C10 amended: under num an all-digit string of value at most 2^31-1
\* resolves to its decimal value, one of value above 2^32-1 is rejected, and
\* every string that is not all digits is rejected; under str every all-digit
\* string is rejected and only strings of letters and hyphens are accepted.
C10_TypeEnforcement ==
    /\ StrSchemaRejectsSeven
    /\ res.op = "GetIndex" =>
        LET index == Chars(res.arg.index)
        IN  /\ (res.arg.typ = "num" /\ AllDigits(index)
                    /\ DecLeq(Canon(index), Chars("2147483647")))
                   => (res.out = "ok" /\ Itoa(res.val) = Canon(index))
            /\ (res.arg.typ = "num" /\ AllDigits(index)
                    /\ ~DecLeq(Canon(index), Chars("4294967295")))
                   => res.out = "error"
            /\ (res.arg.typ = "num" /\ ~AllDigits(index)) => res.out = "error"
            /\ (res.arg.typ = "str" /\ AllDigits(index)) => res.out = "error"
            /\ (res.arg.typ = "str" /\ res.out = "ok") => OnlyLettersAndHyphens(index)

\* the largest accepted number, written with its ten digits
C10_Witness ==
    /\ res.op = "GetIndex"
    /\ res.arg = [index |-> "2147483647", typ |-> "num"]
    /\ res.out = "ok"
    /\ res.val = 2147483647

\* the decimal value of the all-digit string is at most the value of limit
ValueAtMost(index, limit) == DecLeq(Canon(index), Chars(limit))

\* under type num: all-digit strings of value up to limit resolve to that
\* value, every other string fails
NumericRange(limit) ==
    (res.op = "GetIndex" /\ res.arg.typ = "num") =>
        LET index == Chars(res.arg.index)
        IN  IF AllDigits(index) /\ ValueAtMost(index, limit)
            THEN res.out = "ok" /\ Itoa(res.val) = Canon(index)
            ELSE res.out = "error"

\* C11 as stated: under num an all-digit string resolves to its value
\* whenever the value is at most 2^32-1, and fails when it is not all digits
\* or its value is above 2^32-1.
C11_NumericRange32 == NumericRange("4294967295")

\* C11 amended: under num an all-digit string resolves to its value whenever
\* the value is at most 2^31-1, and fails when it is not all digits or its
\* value is above 2^31-1, digit strings too long for an int included.
C11_NumericRange31 == NumericRange("2147483647")

\* a digit string beyond the 64-bit int, rejected under num
C11_Witness ==
    /\ res.op = "GetIndex"
    /\ res.arg = [index |-> "99999999999999999999", typ |-> "num"]
    /\ res.out = "error"

\* the digest of the bytes of a text under the caller's hash
DigestOf(str) == HashSum(h, StrBytes(Chars(str)))

\* the big-endian number of the first four bytes, less 2^31 when it has
\* reached 2^31
Reduced(d) ==
    (IF d[1] >= 128 THEN d[1] - 128 ELSE d[1]) * 16777216
        + d[2] * 65536 + d[3] * 256 + d[4]

\* the digest with the top bit of its first byte changed
FlipTop(d) == [d EXCEPT ![1] = IF d[1] >= 128 THEN d[1] - 128 ELSE d[1] + 128]

\* the calls that return an alphabetic index, and the text they resolved
AlphabeticCall ==
    \/ res.op = "StrToIndex"
    \/ res.op = "GetIndex" /\ res.arg.typ = "str" /\ res.out = "ok"
AlphabeticText == IF res.op = "StrToIndex" THEN res.arg ELSE res.arg.index

\* C12: the alphabetic index of a string is the big-endian number of the
\* first four digest bytes modulo 2^31; it lies in 0 .. 2^31-1, and a digest
\* that differs only in the top bit of its first byte gives the same index.
C12_AlphabeticReduction ==
    AlphabeticCall =>
        LET d == DigestOf(AlphabeticText)
        IN  /\ res.val = Reduced(d)
            /\ res.val \in 0..2147483647
            /\ IndexOfDigest(FlipTop(d)) = res.val

\* an alphabetic string whose digest has the top bit set, resolved under str
C12_Witness ==
    /\ res.op = "GetIndex"
    /\ res.arg.typ = "str"
    /\ res.out = "ok"
    /\ DigestOf(res.arg.index)[1] >= 128
    /\ res.val = Reduced(DigestOf(res.arg.index))

\* no string matches both patterns, and the empty string matches neither
PatternsDisjoint ==
    res.op = "GetIndex" =>
        LET index == Chars(res.arg.index)
        IN  /\ ~(isNumber(index) /\ isString(index))
            /\ (Len(index) = 0 => (~isNumber(index) /\ ~isString(index)))

\* C13 as stated: under any, an all-digit string is resolved numerically,
\* any other string of letters and hyphens alphabetically, and the
\* resolution fails only if the string matches neither pattern; no string
\* matches both patterns and the empty string matches neither.
C13_EitherFailsOnNeither ==
    /\ PatternsDisjoint
    /\ (res.op = "GetIndex" /\ res.arg.typ = "any") =>
        LET index == Chars(res.arg.index)
        IN  IF AllDigits(index)
            THEN res.out = "ok" /\ Itoa(res.val) = Canon(index)
            ELSE IF OnlyLettersAndHyphens(index)
                 THEN res.out = "ok" /\ res.val = Reduced(DigestOf(res.arg.index))
                 ELSE res.out = "error"

\* C13 amended: under any, an all-digit string is resolved numerically (to
\* its value when that is at most 2^31-1, to a failure when it is above),
\* any other string of letters and hyphens alphabetically, and the
\* resolution fails only if the string matches neither pattern or is all
\* digits with a value above 2^31-1; no string matches both patterns and the
\* empty string matches neither.
C13_EitherResolution ==
    /\ PatternsDisjoint
    /\ (res.op = "GetIndex" /\ res.arg.typ = "any") =>
        LET index == Chars(res.arg.index)
        IN  IF AllDigits(index)
            THEN IF ValueAtMost(index, "2147483647")
                 THEN res.out = "ok" /\ Itoa(res.val) = Canon(index)
                 ELSE res.out = "error"
            ELSE IF OnlyLettersAndHyphens(index)
                 THEN res.out = "ok" /\ res.val = Reduced(DigestOf(res.arg.index))
                 ELSE res.out = "error"

\* a string of letters and a hyphen resolved alphabetically under any
C13_Witness ==
    /\ res.op = "GetIndex"
    /\ res.arg = [index |-> "x-y", typ |-> "any"]
    /\ res.out = "ok"
    /\ res.val = StrToIndex(h, Chars("x-y"))

\* the index string resolves under the type, by the rules of the types
Resolvable(index, typ) ==
    LET number == AllDigits(index) /\ ValueAtMost(index, "2147483647")
        alphabetic == OnlyLettersAndHyphens(index)
    IN  \/ typ = Chars("num") /\ number
        \/ typ = Chars("str") /\ alphabetic
        \/ typ = Chars("any") /\ (number \/ alphabetic)

\* the positions (from 1) of the index segments of the path text that do
\* not resolve under the schema
FailingPositions(str) ==
    {k \in 1..Cardinality(Slashes(str)) : ~Resolvable(IndexText(str, k), schema[k][2])}

\* C14: when an index string of a path text fails to resolve, Path returns
\* the nil path and an error carrying the lowest failing position, counted
\* from 0 after the root, and the schema label at that position.
C14_FailureNamesPosition ==
    (/\ res.op = "Path"
     /\ RootText(res.arg) = "m"
     /\ Cardinality(Slashes(res.arg)) <= Len(schema)
     /\ FailingPositions(res.arg) # {}) =>
        LET failing == FailingPositions(res.arg)
            first == CHOOSE k \in failing : \A j \in failing : k <= j
        IN  /\ res.out = "error"
            /\ res.val = <<>>
            /\ res.err[1] = "derivation path position"
            /\ res.err[2] = first - 1
            /\ res.err[3] = schema[first][1]

\* two indices resolved, then the third one fails under the label "c"
C14_Witness ==
    /\ res.op = "Path"
    /\ res.arg = "m/7/ab/a1"
    /\ Len(schema) = 3
    /\ res.out = "error"
    /\ res.val = <<>>
    /\ res.err[2] = 2
    /\ res.err[3] = Chars("c")

C16_NoPartialKey ==
    (res.op \in {"Master", "Child", "Node"} /\ res.out = "error") =>
        /\ res.val = ZeroKey
        /\ res.err \in {"master key salt", "master key hkdf", "master key fingerprint",
                        "child key salt", "child key hkdf", "child key fingerprint",
                        "node initialization", "node derivation"}

\* Node on three indices whose first step succeeded and whose second step
\* failed at the fingerprint
C16_Witness ==
    /\ res.op = "Node"
    /\ Len(res.arg) = 3
    /\ Child(h, master, res.arg[1]).out = "ok"
    /\ res.out = "error"
    /\ res.err = "node derivation"
    /\ res.val = ZeroKey

\* the blocks of the expansion as a chain: block 1 is the keyed digest of
\* the label and the counter 1, block i that of block i-1, the label and i
RECURSIVE ChainedBlocks(_, _, _)
ChainedBlocks(prk, info, n) ==
    IF n = 0 THEN <<>>
    ELSE LET before == ChainedBlocks(prk, info, n - 1)
             last == IF n = 1 THEN <<>> ELSE before[n - 1]
         IN  Append(before, mac_digest(prk, last \o info \o <<n>>).val)

\* the first length bytes of the blocks put end to end
Truncated(blocks, length) ==
    [j \in 1..length |-> blocks[((j - 1) \div MacSize) + 1][((j - 1) % MacSize) + 1]]

\* C17: the output of the expansion is the chain of blocks (block n the keyed
\* digest, under the pseudorandom key, of block n-1, the context label and
\* the counter n; block 1 with an empty previous block) put end to end and
\* cut to exactly the requested length.
C17_ExpandChains ==
    res.op = "Hkdf" =>
        LET prk == hkdf_extract(res.arg.ikm, res.arg.salt).val
            n == (res.arg.length + MacSize - 1) \div MacSize
        IN  /\ res.out = "ok"
            /\ Len(res.val) = res.arg.length
            /\ res.val = Truncated(ChainedBlocks(prk, res.arg.info, n), res.arg.length)

\* Lineage called on the master key as Master returned it
MasterVerified ==
    /\ res.op = "Lineage"
    /\ mprov.op = "Master"
    /\ kprov.op = "none"
    /\ res.arg.child = master

\* C18: Lineage of Master(h, s) against a key record whose Key is s returns
\* true with no error, and against a record with any other Key it returns
\* false.
C18_MasterBoundToSecret ==
    MasterVerified =>
        IF res.arg.parent.Key = mprov.secret
        THEN res.out = "ok" /\ res.val = TRUE
        ELSE res.val = FALSE

\* the master of a 16-byte secret verified, under a hash that takes 16-byte
\* keys only, against a caller-built record holding the secret as its Key
C18_Witness ==
    /\ MasterVerified
    /\ h = "k16"
    /\ res.arg.parent.Key = mprov.secret
    /\ res.arg.parent # master
    /\ res.val = TRUE

\* what the call returns when it runs alone on the arguments as they were
Alone(op, arg) ==
    CASE op = "Master" -> Master(h, res.arg.secret)
      [] op = "Child" -> Child(h, res.arg.master, arg)
      [] op = "Node" -> Node(h, res.arg.master, arg)
      [] op = "Lineage" -> Lineage(h, res.arg.key, res.arg.master)
      [] op = "Schema" -> Schema(arg)
      [] op = "Path" -> Path(h, arg, res.arg.schema)

SameCode == {l \in Literals : l.Code = master.Code}

Mismatches ==
    {k \in 1..16 : run[Verifier].fp[k] # run[Verifier].fp2[k]}

\* the comparison has returned on two 16-byte fingerprints
Compared ==
    /\ run[Verifier].pc = "done"
    /\ Len(run[Verifier].fp) = 16
    /\ Len(run[Verifier].fp2) = 16

\* C21: on two 16-byte fingerprints the comparison of Lineage returns true
\* exactly when the 16 pairs of bytes are equal, and it makes all 16 rounds
\* on every call, also after a pair that differs: round k leaves in result
\* the bitwise or of the xor of the first k pairs.
C21_ConstantTimeCompare ==
    /\ run[Verifier].pc = "loop" =>
           \A k \in 1..Len(run[Verifier].acc) :
               run[Verifier].acc[k] = XorAcc(run[Verifier].fp, run[Verifier].fp2, k)
    /\ Compared =>
           /\ run[Verifier].ret = Ok(Mismatches = {})
           /\ run[Verifier].i = 16
           /\ Len(run[Verifier].acc) = 16
           /\ \A k \in 1..16 :
                  run[Verifier].acc[k] = XorAcc(run[Verifier].fp, run[Verifier].fp2, k)
           /\ run[Verifier].ret = Lineage(h, key, master)

\* fingerprints that differ in their first byte only, compared to the end
C21_Witness ==
    /\ Compared
    /\ Mismatches = {1}
    /\ Len(run[Verifier].acc) = 16
    /\ run[Verifier].acc[1] # 0
    /\ run[Verifier].ret = Ok(FALSE)

\* C22: the Key of a key record returned by Master or Child shares no
\* storage with the Code of the record, with the secret or with the other
\* records: after a write into the 32 bytes of the Key, and after an append
\* to the Key, the Code of the record, the secret and the Key and Code of
\* the other records are as they were.
C22_DisjointStorage ==
    res.op \in {"Store", "Append"} => res.val = res.arg.rest


====
